---- MODULE Spec2Model ----
(***************************************************************************)
(* TRIEST streaming triangle estimators of HW3/Triest.py (TriestBase and   *)
(* TriestImpr): one estimator instance, its run() loop over the lines of   *)
(* the edge file, and the read-only estimate methods.                      *)
(*                                                                         *)
(* Numbers are exact rationals [num, den]; Python computes the scaling     *)
(* factors and the IMPROVED accumulators in binary floating point, which   *)
(* agrees with the exact value on the small operands explored here.        *)
(* The verbose progress report (every 10000 accepted edges) only prints.   *)
(*                                                                         *)
(* a3 is an estimator of Asiignment3/Steammingtriangle.py (TriestBase or   *)
(* TriestImproved, as variant says) built with the same M; SpecA3 runs it  *)
(* alone and SpecPair feeds it the lines and the random draws of the HW3   *)
(* TriestBase.  before_run is history: what the estimator held when run()  *)
(* was last entered; only SpecRerun records it.                            *)
(***************************************************************************)
EXTENDS Integers, Sequences, FiniteSets, TLC

VARIABLES variant, M, skip_duplicates, S, t, tau, tau_vertices, seen_edges,
          skipped_count, pc, line, outcome, result, stream_edges,
          a3, before_run

vars == <<variant, M, skip_duplicates, S, t, tau, tau_vertices, seen_edges,
          skipped_count, pc, line, outcome, result, stream_edges,
          a3, before_run>>

(* ---------------------------- bounds ----------------------------------- *)
MaxM == 4
MaxT == 5
MaxSkipped == 1

(* ---------------------------- rationals -------------------------------- *)
Abs(n) == IF n < 0 THEN -n ELSE n

RECURSIVE GCD(_, _)
GCD(a, b) == IF b = 0 THEN a ELSE GCD(b, a % b)

Rat(n, d) ==
    LET g == GCD(Abs(n), Abs(d))
        s == IF d < 0 THEN -1 ELSE 1
    IN  [num |-> (s * n) \div g, den |-> (s * d) \div g]

FromInt(n) == [num |-> n, den |-> 1]
Zero == FromInt(0)
One == FromInt(1)
None == [num |-> 0, den |-> 0]

RAdd(a, b) == Rat(a.num * b.den + b.num * a.den, a.den * b.den)
RSub(a, b) == Rat(a.num * b.den - b.num * a.den, a.den * b.den)
RMul(a, b) == Rat(a.num * b.num, a.den * b.den)
RLt(a, b) == a.num * b.den < b.num * a.den
RLeq(a, b) == a.num * b.den <= b.num * a.den
RMax(a, b) == IF RLt(a, b) THEN b ELSE a

(* ---------------------------- input lines ------------------------------ *)
Whitespace == {" ", "\n"}
Digits == {"0", "1", "2", "3", "4", "5", "6", "7", "8", "9"}

(* well-formed edge lines: the triangles 1-2-3 and 1-3-4, one edge also reversed *)
PairLines ==
    { <<"1", " ", "2">>, <<"2", " ", "3">>, <<"3", " ", "1">>, <<"3", " ", "4">>,
      <<"1", " ", "4">>, <<"2", " ", "1">> }

(* blank, comment, short, self-loop, non-integer, extra-token and padded lines *)
OtherLines ==
    { <<" ", "\n">>,
      <<"#", " ", "1", " ", "2">>,
      <<"1">>,
      <<"5", " ", "5">>,
      <<"1", " ", "x">>,
      <<"1", " ", "2", " ", "3">>,
      <<"3", " ", "4", " ", "x">>,
      <<" ", "0", "2", " ", " ", "3", "\n">> }

Lines == PairLines \cup OtherLines

NoLine == <<"<none>">>

(* str.strip() *)
RECURSIVE LStrip(_)
LStrip(s) == IF s # <<>> /\ Head(s) \in Whitespace THEN LStrip(Tail(s)) ELSE s

RECURSIVE RStrip(_)
RStrip(s) ==
    IF s # <<>> /\ s[Len(s)] \in Whitespace
    THEN RStrip(SubSeq(s, 1, Len(s) - 1))
    ELSE s

Strip(s) == RStrip(LStrip(s))

(* str.split(): maximal runs of non-whitespace characters *)
RECURSIVE SplitFrom(_, _, _)
SplitFrom(s, cur, acc) ==
    IF s = <<>>
    THEN IF cur = <<>> THEN acc ELSE Append(acc, cur)
    ELSE IF Head(s) \in Whitespace
         THEN SplitFrom(Tail(s), <<>>, IF cur = <<>> THEN acc ELSE Append(acc, cur))
         ELSE SplitFrom(Tail(s), Append(cur, Head(s)), acc)

Split(s) == SplitFrom(s, <<>>, <<>>)

(* int(token): decimal digits only in this alphabet; anything else raises ValueError *)
IntOk(tok) == tok # <<>> /\ \A i \in 1..Len(tok) : tok[i] \in Digits

DigitVal(c) ==
    CASE c = "0" -> 0 [] c = "1" -> 1 [] c = "2" -> 2 [] c = "3" -> 3
      [] c = "4" -> 4 [] c = "5" -> 5 [] c = "6" -> 6 [] c = "7" -> 7
      [] c = "8" -> 8 [] c = "9" -> 9

RECURSIVE IntVal(_)
IntVal(tok) ==
    IF tok = <<>> THEN 0
    ELSE 10 * IntVal(SubSeq(tok, 1, Len(tok) - 1)) + DigitVal(tok[Len(tok)])

(* _get_edge *)
get_edge_raises(ln) ==
    LET parts == Split(Strip(ln))
    IN  Len(parts) >= 2 /\ (~IntOk(parts[1]) \/ ~IntOk(parts[2]))

get_edge(ln) ==
    LET parts == Split(Strip(ln))
    IN  IF Len(parts) >= 2
        THEN {IntVal(parts[1]), IntVal(parts[2])}
        ELSE {}

(* run(): the tests at the top of the loop body *)
IsIgnoredLine_blankOnly(ln) == Strip(ln) = <<>>

IsIgnoredLine(ln) == IF Strip(ln) = <<>> THEN TRUE ELSE Head(Strip(ln)) = "#"

IsValidEdge_nonempty(edge) == Cardinality(edge) >= 1

IsValidEdge(edge) == Cardinality(edge) = 2

(* what the top of the loop body makes of each line of the input alphabet *)
Parsed ==
    [ln \in Lines |->
        IF IsIgnoredLine(ln) THEN [kind |-> "ignored", edge |-> {}]
        ELSE IF get_edge_raises(ln) THEN [kind |-> "raises", edge |-> {}]
        ELSE IF ~IsValidEdge(get_edge(ln)) THEN [kind |-> "invalid", edge |-> get_edge(ln)]
        ELSE [kind |-> "edge", edge |-> get_edge(ln)]]

(* ---------------------------- scaling factors -------------------------- *)
TriestBase_xi_raises(t_, M_) == t_ > M_ /\ M_ * (M_ - 1) * (M_ - 2) = 0

TriestBase_xi_square(t_, M_) ==
    IF t_ <= M_
    THEN One
    ELSE RMax(One, Rat(t_ * (t_ - 1) * (t_ - 1), M_ * (M_ - 1) * (M_ - 2)))

TriestBase_xi(t_, M_) ==
    IF t_ <= M_
    THEN One
    ELSE RMax(One, Rat(t_ * (t_ - 1) * (t_ - 2), M_ * (M_ - 1) * (M_ - 2)))

TriestImpr_xi_raises(t_, M_) == t_ >= 3 /\ M_ * (M_ - 1) = 0

TriestImpr_xi_shifted(t_, M_) ==
    IF t_ < 3
    THEN One
    ELSE RMax(One, Rat((t_ - 2) * (t_ - 3), M_ * (M_ - 1)))

TriestImpr_xi(t_, M_) ==
    IF t_ < 3
    THEN One
    ELSE RMax(One, Rat((t_ - 1) * (t_ - 2), M_ * (M_ - 1)))

xi_raises(var_, t_, M_) ==
    IF var_ = "BASE" THEN TriestBase_xi_raises(t_, M_) ELSE TriestImpr_xi_raises(t_, M_)

xi(var_, t_, M_) ==
    IF var_ = "BASE" THEN TriestBase_xi(t_, M_) ELSE TriestImpr_xi(t_, M_)

(* ---------------------------- counters --------------------------------- *)
EmptyMap == [w \in {} |-> Zero]
TvGet(tv, v) == IF v \in DOMAIN tv THEN tv[v] ELSE Zero
TvSet(tv, v, x) == [w \in (DOMAIN tv) \cup {v} |-> IF w = v THEN x ELSE tv[w]]
TvDel(tv, v) == [w \in (DOMAIN tv) \ {v} |-> tv[w]]
TvAdd(tv, v, x) == TvSet(tv, v, RAdd(TvGet(tv, v), x))
TvDelIfZero_keeps(tv, v) == tv

TvDelIfZero(tv, v) == IF TvGet(tv, v) = Zero THEN TvDel(tv, v) ELSE tv

EdgeU(edge) == CHOOSE x \in edge : TRUE
EdgeV(edge) == CHOOSE x \in edge : edge = {EdgeU(edge), x}

Neighbours_inclusive(S_, u) == {node \in UNION S_ : \E link \in S_ : u \in link /\ node \in link}

Neighbours(S_, u) == {node \in UNION S_ : node # u /\ \E link \in S_ : u \in link /\ node \in link}

SharedNeighbourhood_union(S_, edge) == Neighbours(S_, EdgeU(edge)) \cup Neighbours(S_, EdgeV(edge))

SharedNeighbourhood(S_, edge) == Neighbours(S_, EdgeU(edge)) \cap Neighbours(S_, EdgeV(edge))

BaseIncrement_noThird(ctr, u, v, c) ==
    [tau |-> RAdd(ctr.tau, One),
     tv  |-> TvAdd(TvAdd(ctr.tv, u, One), v, One)]

BaseIncrement(ctr, u, v, c) ==
    [tau |-> RAdd(ctr.tau, One),
     tv  |-> TvAdd(TvAdd(TvAdd(ctr.tv, u, One), v, One), c, One)]

BaseDecrement_noop(ctr, u, v, c) == ctr

BaseDecrement(ctr, u, v, c) ==
    LET m == FromInt(-1)
        tv1 == TvAdd(TvAdd(TvAdd(ctr.tv, u, m), v, m), c, m)
    IN  [tau |-> RAdd(ctr.tau, m),
         tv  |-> TvDelIfZero(TvDelIfZero(TvDelIfZero(tv1, u), v), c)]

RECURSIVE BaseLoop(_, _, _, _, _)
BaseLoop(ctr, u, v, shared, increment) ==
    IF shared = {}
    THEN ctr
    ELSE LET c == CHOOSE x \in shared : TRUE
         IN  BaseLoop(IF increment THEN BaseIncrement(ctr, u, v, c)
                                   ELSE BaseDecrement(ctr, u, v, c),
                      u, v, shared \ {c}, increment)

TriestBase_update_counters_negated(ctr, S_, edge, increment) ==
    BaseLoop(ctr, EdgeU(edge), EdgeV(edge), SharedNeighbourhood(S_, edge), ~increment)

TriestBase_update_counters(ctr, S_, edge, increment) ==
    BaseLoop(ctr, EdgeU(edge), EdgeV(edge), SharedNeighbourhood(S_, edge), increment)

RECURSIVE ImprLoop(_, _, _, _, _)
ImprLoop(ctr, u, v, shared, weight) ==
    IF shared = {}
    THEN ctr
    ELSE LET c == CHOOSE x \in shared : TRUE
         IN  ImprLoop([tau |-> RAdd(ctr.tau, weight),
                       tv  |-> TvAdd(TvAdd(TvAdd(ctr.tv, u, weight), v, weight), c, weight)],
                      u, v, shared \ {c}, weight)

TriestImpr_update_counters_stale(ctr, S_, edge, t_, M_) ==
    ImprLoop(ctr, EdgeU(edge), EdgeV(edge), SharedNeighbourhood(S_, edge),
             TriestImpr_xi(t_ - 1, M_))

TriestImpr_update_counters(ctr, S_, edge, t_, M_) ==
    ImprLoop(ctr, EdgeU(edge), EdgeV(edge), SharedNeighbourhood(S_, edge),
             TriestImpr_xi(t_, M_))

(* ---------------------------- reservoir -------------------------------- *)
(* _sample_edge: "if self.t <= self.M: return True" *)
TriestBase_filling_early(t_, M_) == t_ < M_

TriestBase_filling(t_, M_) == t_ <= M_
TriestImpr_filling_strict(t_, M_) == t_ < M_

TriestImpr_filling(t_, M_) == t_ <= M_

(* _sample_edge: random.random() < M/t can come out true (random() is in [0,1)) *)
CanAdmit(t_, M_) == M_ > 0

(* _sample_edge: self.S.remove(edge_to_remove) *)
TriestBase_evict_keep(S_, edge_to_remove) == S_

TriestBase_evict(S_, edge_to_remove) == S_ \ {edge_to_remove}
TriestImpr_evict(S_, edge_to_remove) == S_ \ {edge_to_remove}

(* run(): "if edge in self.seen_edges" *)
IsDuplicate_never(edge, seen) == FALSE

IsDuplicate(edge, seen) == edge \in seen

(* ---------------------------- read-only methods ------------------------ *)
get_local_estimate_raises(vertex) == xi_raises(variant, t, M)
get_local_estimate(vertex) == RMul(xi(variant, t, M), TvGet(tau_vertices, vertex))

final_estimate_raises == variant = "BASE" /\ TriestBase_xi_raises(t, M)
final_estimate == IF variant = "BASE" THEN RMul(TriestBase_xi(t, M), tau) ELSE tau

(* ---------------------------- state machine ---------------------------- *)
(* Steammingtriangle.py, Triest.__init__: all counters zero, S empty *)
A3_Triest_init ==
    [S |-> {}, t |-> 0, tau |-> Zero, tau_vertices |-> EmptyMap,
     pc |-> "idle", line |-> NoLine, outcome |-> "none", result |-> None]

(* the stream position and what the last call of run() gave *)
Snapshot == [t |-> t, outcome |-> outcome, result |-> result]

Init ==
    /\ variant \in {"BASE", "IMPR"}
    /\ M \in 0..MaxM
    /\ skip_duplicates \in BOOLEAN
    /\ S = {}
    /\ t = 0
    /\ tau = Zero
    /\ tau_vertices = EmptyMap
    /\ seen_edges = {}
    /\ skipped_count = 0
    /\ pc = "idle"
    /\ line = NoLine
    /\ outcome = "none"
    /\ result = None
    /\ stream_edges = {}
    /\ a3 = A3_Triest_init
    /\ before_run = Snapshot

Config == <<variant, M, skip_duplicates>>
Counters == <<S, t, tau, tau_vertices, seen_edges, stream_edges>>

OpenFile_reset ==
    /\ pc = "idle"
    /\ pc' = "reading"
    /\ skipped_count' = 0
    /\ outcome' = "running"
    /\ result' = None
    /\ line' = NoLine
    /\ t' = 0
    /\ UNCHANGED <<Config, S, tau, tau_vertices, seen_edges, stream_edges>>

OpenFile_forgetsSeen ==
    /\ pc = "idle"
    /\ pc' = "reading"
    /\ skipped_count' = 0
    /\ outcome' = "running"
    /\ result' = None
    /\ line' = NoLine
    /\ seen_edges' = {}
    /\ UNCHANGED <<Config, S, t, tau, tau_vertices, stream_edges>>

(* run(): open(self.file) succeeds, skipped_count = 0 *)
OpenFile ==
    /\ pc = "idle"
    /\ pc' = "reading"
    /\ skipped_count' = 0
    /\ outcome' = "running"
    /\ result' = None
    /\ line' = NoLine
    /\ UNCHANGED <<Config, Counters>>

OpenFails_clears ==
    /\ pc = "idle"
    /\ pc' = "idle"
    /\ skipped_count' = 0
    /\ outcome' = "OSError"
    /\ result' = None
    /\ line' = NoLine
    /\ S' = {}
    /\ tau' = Zero
    /\ tau_vertices' = EmptyMap
    /\ UNCHANGED <<Config, t, seen_edges, stream_edges>>

(* run(): open(self.file) raises OSError *)
OpenFails ==
    /\ pc = "idle"
    /\ pc' = "idle"
    /\ skipped_count' = 0
    /\ outcome' = "OSError"
    /\ result' = None
    /\ line' = NoLine
    /\ UNCHANGED <<Config, Counters>>

(* loop body: blank line, comment line, or a line whose edge has not two vertices *)
SkipLine(ln) ==
    /\ pc = "reading"
    /\ Parsed[ln].kind \in {"ignored", "invalid"}
    /\ line' = ln
    /\ UNCHANGED <<Config, Counters, skipped_count, pc, outcome, result>>

(* loop body: int() raises ValueError inside _get_edge, run() is left *)
ParseError(ln) ==
    /\ pc = "reading"
    /\ Parsed[ln].kind = "raises"
    /\ line' = ln
    /\ pc' = "idle"
    /\ outcome' = "ValueError"
    /\ UNCHANGED <<Config, Counters, skipped_count, result>>

IsEdgeLine(ln) == Parsed[ln].kind = "edge"

(* loop body: skip_duplicates and the edge is in seen_edges *)
DuplicateLine(ln) ==
    /\ pc = "reading"
    /\ IsEdgeLine(ln)
    /\ skip_duplicates
    /\ IsDuplicate(Parsed[ln].edge, seen_edges)
    /\ skipped_count < MaxSkipped
    /\ skipped_count' = skipped_count + 1
    /\ line' = ln
    /\ UNCHANGED <<Config, Counters, pc, outcome, result>>

IsAccepted(ln) ==
    /\ pc = "reading"
    /\ IsEdgeLine(ln)
    /\ skip_duplicates => ~IsDuplicate(Parsed[ln].edge, seen_edges)
    /\ t < MaxT

Accept_noRecord(ln) ==
    /\ seen_edges' = seen_edges
    /\ stream_edges' = stream_edges \cup {Parsed[ln].edge}
    /\ t' = t + 1
    /\ line' = ln

Accept(ln) ==
    /\ seen_edges' = IF skip_duplicates THEN seen_edges \cup {Parsed[ln].edge} ELSE seen_edges
    /\ stream_edges' = stream_edges \cup {Parsed[ln].edge}
    /\ t' = t + 1
    /\ line' = ln

(* TriestBase: _sample_edge returns True without eviction (t <= M) *)
BaseAdmitFilling(ln) ==
    /\ variant = "BASE"
    /\ IsAccepted(ln)
    /\ Accept(ln)
    /\ TriestBase_filling(t + 1, M)
    /\ LET edge == Parsed[ln].edge
           S2 == S \cup {edge}
           ctr == TriestBase_update_counters([tau |-> tau, tv |-> tau_vertices], S2, edge, TRUE)
       IN  /\ S' = S2
           /\ tau' = ctr.tau
           /\ tau_vertices' = ctr.tv
    /\ UNCHANGED <<Config, skipped_count, pc, outcome, result>>

(* TriestBase: random() < M/t, edge_to_remove is evicted, then the edge is added *)
BaseAdmitEvict(ln, edge_to_remove) ==
    /\ variant = "BASE"
    /\ IsAccepted(ln)
    /\ Accept(ln)
    /\ ~TriestBase_filling(t + 1, M)
    /\ CanAdmit(t + 1, M)
    /\ edge_to_remove \in S
    /\ LET edge == Parsed[ln].edge
           S1 == TriestBase_evict(S, edge_to_remove)
           ctr1 == TriestBase_update_counters([tau |-> tau, tv |-> tau_vertices],
                                              S1, edge_to_remove, FALSE)
           S2 == S1 \cup {edge}
           ctr2 == TriestBase_update_counters(ctr1, S2, edge, TRUE)
       IN  /\ S' = S2
           /\ tau' = ctr2.tau
           /\ tau_vertices' = ctr2.tv
    /\ UNCHANGED <<Config, skipped_count, pc, outcome, result>>

BaseReject_evicts(ln) ==
    /\ variant = "BASE"
    /\ IsAccepted(ln)
    /\ Accept(ln)
    /\ ~TriestBase_filling(t + 1, M)
    /\ S' = IF S = {} THEN S ELSE TriestBase_evict(S, CHOOSE e \in S : TRUE)
    /\ UNCHANGED <<Config, tau, tau_vertices, skipped_count, pc, outcome, result>>

(* TriestBase: random() >= M/t, _sample_edge returns False *)
BaseReject(ln) ==
    /\ variant = "BASE"
    /\ IsAccepted(ln)
    /\ Accept(ln)
    /\ ~TriestBase_filling(t + 1, M)
    /\ UNCHANGED <<Config, S, tau, tau_vertices, skipped_count, pc, outcome, result>>

(* TriestImpr: xi() divides by M*(M-1) = 0 inside _update_counters *)
ImprUpdateError(ln) ==
    /\ variant = "IMPR"
    /\ IsAccepted(ln)
    /\ Accept(ln)
    /\ TriestImpr_xi_raises(t + 1, M)
    /\ pc' = "idle"
    /\ outcome' = "ZeroDivisionError"
    /\ UNCHANGED <<Config, S, tau, tau_vertices, skipped_count, result>>

ImprUpdate(ln) ==
    /\ variant = "IMPR"
    /\ IsAccepted(ln)
    /\ Accept(ln)
    /\ ~TriestImpr_xi_raises(t + 1, M)
    /\ LET ctr == TriestImpr_update_counters([tau |-> tau, tv |-> tau_vertices],
                                             S, Parsed[ln].edge, t + 1, M)
       IN  /\ tau' = ctr.tau
           /\ tau_vertices' = ctr.tv
    /\ UNCHANGED <<Config, skipped_count, pc, outcome, result>>

ImprAdmitFilling(ln) ==
    /\ ImprUpdate(ln)
    /\ TriestImpr_filling(t + 1, M)
    /\ S' = S \cup {Parsed[ln].edge}

ImprAdmitEvict_decrement(ln, edge_to_remove) ==
    /\ variant = "IMPR"
    /\ IsAccepted(ln)
    /\ Accept(ln)
    /\ ~TriestImpr_xi_raises(t + 1, M)
    /\ ~TriestImpr_filling(t + 1, M)
    /\ CanAdmit(t + 1, M)
    /\ edge_to_remove \in S
    /\ LET upd == TriestImpr_update_counters([tau |-> tau, tv |-> tau_vertices],
                                             S, Parsed[ln].edge, t + 1, M)
           ctr == TriestBase_update_counters(upd, TriestImpr_evict(S, edge_to_remove),
                                             edge_to_remove, FALSE)
       IN  /\ tau' = ctr.tau
           /\ tau_vertices' = ctr.tv
    /\ S' = TriestImpr_evict(S, edge_to_remove) \cup {Parsed[ln].edge}
    /\ UNCHANGED <<Config, skipped_count, pc, outcome, result>>

ImprAdmitEvict(ln, edge_to_remove) ==
    /\ ImprUpdate(ln)
    /\ ~TriestImpr_filling(t + 1, M)
    /\ CanAdmit(t + 1, M)
    /\ edge_to_remove \in S
    /\ S' = TriestImpr_evict(S, edge_to_remove) \cup {Parsed[ln].edge}

ImprReject(ln) ==
    /\ ImprUpdate(ln)
    /\ ~TriestImpr_filling(t + 1, M)
    /\ S' = S

(* end of file: final_estimate is computed and returned *)
Return ==
    /\ pc = "reading"
    /\ ~final_estimate_raises
    /\ pc' = "idle"
    /\ outcome' = "returned"
    /\ result' = final_estimate
    /\ line' = NoLine
    /\ UNCHANGED <<Config, Counters, skipped_count>>

(* end of file: TriestBase.xi() divides by M*(M-1)*(M-2) = 0 *)
ReturnError ==
    /\ pc = "reading"
    /\ final_estimate_raises
    /\ pc' = "idle"
    /\ outcome' = "ZeroDivisionError"
    /\ line' = NoLine
    /\ UNCHANGED <<Config, Counters, skipped_count, result>>

Aux == <<a3, before_run>>

Next ==
    \/ OpenFile /\ UNCHANGED Aux
    \/ OpenFails /\ UNCHANGED Aux
    \/ \E ln \in Lines : SkipLine(ln) /\ UNCHANGED Aux
    \/ \E ln \in Lines : ParseError(ln) /\ UNCHANGED Aux
    \/ \E ln \in Lines : DuplicateLine(ln) /\ UNCHANGED Aux
    \/ \E ln \in Lines : BaseAdmitFilling(ln) /\ UNCHANGED Aux
    \/ \E ln \in Lines : \E e \in S : BaseAdmitEvict(ln, e) /\ UNCHANGED Aux
    \/ \E ln \in Lines : BaseReject(ln) /\ UNCHANGED Aux
    \/ \E ln \in Lines : ImprUpdateError(ln) /\ UNCHANGED Aux
    \/ \E ln \in Lines : ImprAdmitFilling(ln) /\ UNCHANGED Aux
    \/ \E ln \in Lines : \E e \in S : ImprAdmitEvict(ln, e) /\ UNCHANGED Aux
    \/ \E ln \in Lines : ImprReject(ln) /\ UNCHANGED Aux
    \/ Return /\ UNCHANGED Aux
    \/ ReturnError /\ UNCHANGED Aux

Spec == Init /\ [][Next]_vars

(* the same estimator with skip_duplicates, remembering what it held at each *)
(* entry of run()                                                           *)
InitRerun == Init /\ skip_duplicates

(* the file read again and again: the two triangles, a comment line and a   *)
(* line that does not parse                                                 *)
RerunLines == PairLines \cup { <<"#", " ", "1", " ", "2">>, <<"1", " ", "x">> }

RunEntered == before_run' = Snapshot /\ UNCHANGED a3

NextRerun ==
    \/ OpenFile /\ RunEntered
    \/ OpenFails /\ RunEntered
    \/ \E ln \in RerunLines : SkipLine(ln) /\ UNCHANGED Aux
    \/ \E ln \in RerunLines : ParseError(ln) /\ UNCHANGED Aux
    \/ \E ln \in RerunLines : DuplicateLine(ln) /\ UNCHANGED Aux
    \/ \E ln \in RerunLines : BaseAdmitFilling(ln) /\ UNCHANGED Aux
    \/ \E ln \in RerunLines : \E e \in S : BaseAdmitEvict(ln, e) /\ UNCHANGED Aux
    \/ \E ln \in RerunLines : BaseReject(ln) /\ UNCHANGED Aux
    \/ \E ln \in RerunLines : ImprUpdateError(ln) /\ UNCHANGED Aux
    \/ \E ln \in RerunLines : ImprAdmitFilling(ln) /\ UNCHANGED Aux
    \/ \E ln \in RerunLines : \E e \in S : ImprAdmitEvict(ln, e) /\ UNCHANGED Aux
    \/ \E ln \in RerunLines : ImprReject(ln) /\ UNCHANGED Aux
    \/ Return /\ UNCHANGED Aux
    \/ ReturnError /\ UNCHANGED Aux

SpecRerun == InitRerun /\ [][NextRerun]_vars

(* ---------------- Asiignment3/Steammingtriangle.py ---------------------- *)
(* lines fed to the second estimator: the well-formed pairs, a self-loop,  *)
(* an edge at the vertex of the self-loop, a blank line and a non-integer   *)
(* token                                                                    *)
A3Lines ==
    PairLines \cup { <<"5", " ", "5">>, <<"1", " ", "5">>, <<" ", "\n">>,
                     <<"1", " ", "x">> }

(* _get_edge: frozenset([int(vertex) for vertex in line.split()]) *)
A3_get_edge_raises(ln) ==
    \E i \in 1..Len(Split(ln)) : ~IntOk(Split(ln)[i])

A3_get_edge(ln) == {IntVal(Split(ln)[i]) : i \in 1..Len(Split(ln))}

A3Parsed ==
    [ln \in A3Lines |->
        IF A3_get_edge_raises(ln) THEN [raises |-> TRUE, edge |-> {}]
        ELSE [raises |-> FALSE, edge |-> A3_get_edge(ln)]]

(* Triest.xi: no test of t <= M, the maximum alone keeps it at 1.0 *)
A3_xi_raises(t_, M_) == M_ * (M_ - 1) * (M_ - 2) = 0

A3_xi_unclamped(t_, M_) == Rat(t_ * (t_ - 1) * (t_ - 2), M_ * (M_ - 1) * (M_ - 2))

A3_xi(t_, M_) == RMax(One, Rat(t_ * (t_ - 1) * (t_ - 2), M_ * (M_ - 1) * (M_ - 2)))

(* TriestImproved.eta *)
A3_eta_raises(t_, M_) == M_ * (M_ - 1) = 0
A3_eta(t_, M_) == RMax(One, Rat((t_ - 1) * (t_ - 2), M_ * (M_ - 1)))

(* the reduce over the neighbour sets of the vertices of the edge *)
A3_common_neighbourhood(S_, edge) ==
    {node \in UNION S_ : \A vertex \in edge : node \in Neighbours(S_, vertex)}

RECURSIVE A3_AddToAll(_, _, _)
A3_AddToAll(tv, nodes, x) ==
    IF nodes = {}
    THEN tv
    ELSE LET node == CHOOSE n \in nodes : TRUE
         IN  A3_AddToAll(TvAdd(tv, node, x), nodes \ {node}, x)

(* the loop "for vertex in common_neighbourhood" with operator(x, 1) or += eta *)
RECURSIVE A3_Loop(_, _, _, _)
A3_Loop(ctr, edge, common, x) ==
    IF common = {}
    THEN ctr
    ELSE LET vertex == CHOOSE c \in common : TRUE
         IN  A3_Loop([tau |-> RAdd(ctr.tau, x),
                      tv  |-> A3_AddToAll(TvAdd(ctr.tv, vertex, x), edge, x)],
                     edge, common \ {vertex}, x)

(* Triest._update_counters: returns early with fewer than two neighbour sets *)
A3_Triest_update_counters(ctr, S_, edge, sign) ==
    IF Cardinality(edge) < 2
    THEN ctr
    ELSE A3_Loop(ctr, edge, A3_common_neighbourhood(S_, edge), FromInt(sign))

(* TriestImproved._update_counters: reduce() of an empty list raises        *)
(* TypeError, eta divides by M*(M-1) when there is a common neighbour       *)
A3_TriestImproved_update_counters_raises(S_, edge, t_, M_) ==
    IF edge = {} THEN "TypeError"
    ELSE IF A3_common_neighbourhood(S_, edge) # {} /\ A3_eta_raises(t_, M_)
         THEN "ZeroDivisionError"
         ELSE "no"

A3_TriestImproved_update_counters(ctr, S_, edge, t_, M_) ==
    A3_Loop(ctr, edge, A3_common_neighbourhood(S_, edge), A3_eta(t_, M_))

A3Counters(ctr) == [a3 EXCEPT !.tau = ctr.tau, !.tau_vertices = ctr.tv]

(* run(): open(self.file) *)
A3Open ==
    /\ a3.pc = "idle"
    /\ a3' = [a3 EXCEPT !.pc = "reading", !.outcome = "running",
                        !.result = None, !.line = NoLine]

A3OpenFails ==
    /\ a3.pc = "idle"
    /\ a3' = [a3 EXCEPT !.outcome = "OSError", !.result = None, !.line = NoLine]

(* loop body: int() raises ValueError inside _get_edge, before t += 1 *)
A3ParseError(ln) ==
    /\ a3.pc = "reading"
    /\ A3Parsed[ln].raises
    /\ a3' = [a3 EXCEPT !.pc = "idle", !.outcome = "ValueError", !.line = ln]

A3IsAccepted(ln) ==
    /\ a3.pc = "reading"
    /\ ~A3Parsed[ln].raises
    /\ a3.t < MaxT

(* TriestBase.run: _sample_edge(t) returns True with t <= M, the counters   *)
(* are updated, then the edge is added                                      *)
A3BaseAdmitFilling(ln) ==
    /\ variant = "BASE"
    /\ A3IsAccepted(ln)
    /\ a3.t + 1 <= M
    /\ LET edge == A3Parsed[ln].edge
           ctr == A3_Triest_update_counters([tau |-> a3.tau, tv |-> a3.tau_vertices],
                                            a3.S, edge, 1)
       IN  a3' = [A3Counters(ctr) EXCEPT !.t = a3.t + 1, !.line = ln,
                                         !.S = a3.S \cup {edge}]

(* TriestBase.run: bernoulli.rvs(p=M/t) gives 1, edge_to_remove is evicted *)
A3BaseAdmitEvict(ln, edge_to_remove) ==
    /\ variant = "BASE"
    /\ A3IsAccepted(ln)
    /\ a3.t + 1 > M
    /\ M > 0
    /\ edge_to_remove \in a3.S
    /\ LET edge == A3Parsed[ln].edge
           S1 == a3.S \ {edge_to_remove}
           ctr1 == A3_Triest_update_counters([tau |-> a3.tau, tv |-> a3.tau_vertices],
                                             S1, edge_to_remove, -1)
           ctr2 == A3_Triest_update_counters(ctr1, S1, edge, 1)
       IN  a3' = [A3Counters(ctr2) EXCEPT !.t = a3.t + 1, !.line = ln,
                                          !.S = S1 \cup {edge}]

(* TriestBase.run: bernoulli.rvs(p=M/t) gives 0 *)
A3BaseReject(ln) ==
    /\ variant = "BASE"
    /\ A3IsAccepted(ln)
    /\ a3.t + 1 > M
    /\ a3' = [a3 EXCEPT !.t = a3.t + 1, !.line = ln]

(* TriestImproved.run: _update_counters raises after t += 1 *)
A3ImprUpdateError(ln) ==
    /\ variant = "IMPR"
    /\ A3IsAccepted(ln)
    /\ A3_TriestImproved_update_counters_raises(a3.S, A3Parsed[ln].edge, a3.t + 1, M) # "no"
    /\ a3' = [a3 EXCEPT !.t = a3.t + 1, !.line = ln, !.pc = "idle",
                        !.outcome = A3_TriestImproved_update_counters_raises(
                                        a3.S, A3Parsed[ln].edge, a3.t + 1, M)]

A3ImprUpdated(ln) ==
    A3Counters(A3_TriestImproved_update_counters(
                   [tau |-> a3.tau, tv |-> a3.tau_vertices],
                   a3.S, A3Parsed[ln].edge, a3.t + 1, M))

A3ImprIsUpdated(ln) ==
    /\ variant = "IMPR"
    /\ A3IsAccepted(ln)
    /\ A3_TriestImproved_update_counters_raises(a3.S, A3Parsed[ln].edge, a3.t + 1, M) = "no"

(* TriestImproved.run: counters first, then _sample_edge(t) with t <= M *)
A3ImprAdmitFilling(ln) ==
    /\ A3ImprIsUpdated(ln)
    /\ a3.t + 1 <= M
    /\ a3' = [A3ImprUpdated(ln) EXCEPT !.t = a3.t + 1, !.line = ln,
                                       !.S = a3.S \cup {A3Parsed[ln].edge}]

A3ImprAdmitEvict(ln, edge_to_remove) ==
    /\ A3ImprIsUpdated(ln)
    /\ a3.t + 1 > M
    /\ M > 0
    /\ edge_to_remove \in a3.S
    /\ a3' = [A3ImprUpdated(ln) EXCEPT !.t = a3.t + 1, !.line = ln,
                                       !.S = (a3.S \ {edge_to_remove})
                                                \cup {A3Parsed[ln].edge}]

A3ImprReject(ln) ==
    /\ A3ImprIsUpdated(ln)
    /\ a3.t + 1 > M
    /\ a3' = [A3ImprUpdated(ln) EXCEPT !.t = a3.t + 1, !.line = ln]

(* end of file: "return self.xi * self.tau" or "return self.tau" *)
A3_final_raises == variant = "BASE" /\ A3_xi_raises(a3.t, M)
A3_final == IF variant = "BASE" THEN RMul(A3_xi(a3.t, M), a3.tau) ELSE a3.tau

A3Return ==
    /\ a3.pc = "reading"
    /\ ~A3_final_raises
    /\ a3' = [a3 EXCEPT !.pc = "idle", !.outcome = "returned",
                        !.result = A3_final, !.line = NoLine]

A3ReturnError ==
    /\ a3.pc = "reading"
    /\ A3_final_raises
    /\ a3' = [a3 EXCEPT !.pc = "idle", !.outcome = "ZeroDivisionError", !.line = NoLine]

(* the estimator of HW3/Triest.py and the history record stay as built *)
Own == <<Config, Counters, skipped_count, pc, line, outcome, result, before_run>>

InitA3 == Init /\ ~skip_duplicates

NextA3 ==
    \/ A3Open /\ UNCHANGED Own
    \/ A3OpenFails /\ UNCHANGED Own
    \/ \E ln \in A3Lines : A3ParseError(ln) /\ UNCHANGED Own
    \/ \E ln \in A3Lines : A3BaseAdmitFilling(ln) /\ UNCHANGED Own
    \/ \E ln \in A3Lines : \E e \in a3.S : A3BaseAdmitEvict(ln, e) /\ UNCHANGED Own
    \/ \E ln \in A3Lines : A3BaseReject(ln) /\ UNCHANGED Own
    \/ \E ln \in A3Lines : A3ImprUpdateError(ln) /\ UNCHANGED Own
    \/ \E ln \in A3Lines : A3ImprAdmitFilling(ln) /\ UNCHANGED Own
    \/ \E ln \in A3Lines : \E e \in a3.S : A3ImprAdmitEvict(ln, e) /\ UNCHANGED Own
    \/ \E ln \in A3Lines : A3ImprReject(ln) /\ UNCHANGED Own
    \/ A3Return /\ UNCHANGED Own
    \/ A3ReturnError /\ UNCHANGED Own

SpecA3 == InitA3 /\ [][NextA3]_vars

(* ---------------- the two TriestBase implementations side by side ------- *)
(* both estimators are built with the same M and read the same file; where  *)
(* both draw, random.random() < M/t and bernoulli.rvs(p=M/t) come out the   *)
(* same and random.choice() picks the same edge when it is in both samples  *)
NoPick == {}

(* what _sample_edge of Asiignment3 can draw for the next edge: nothing     *)
(* while t <= M, else a rejection (NoPick) or the edge of S to evict        *)
A3Picks == IF a3.t + 1 <= M THEN {NoPick} ELSE a3.S \cup {NoPick}

A3BaseOffer(ln, pick) ==
    IF a3.t + 1 <= M THEN A3BaseAdmitFilling(ln)
    ELSE IF pick # NoPick THEN A3BaseAdmitEvict(ln, pick)
    ELSE A3BaseReject(ln)

InitPair == Init /\ variant = "BASE"

NextPair ==
    \/ OpenFile /\ A3Open /\ UNCHANGED before_run
    \/ OpenFails /\ A3OpenFails /\ UNCHANGED before_run
    \/ \E ln \in PairLines : \E pick \in A3Picks :
          DuplicateLine(ln) /\ A3BaseOffer(ln, pick) /\ UNCHANGED before_run
    \/ \E ln \in PairLines : \E pick \in A3Picks :
          BaseAdmitFilling(ln) /\ A3BaseOffer(ln, pick) /\ UNCHANGED before_run
    \/ \E ln \in PairLines : \E e \in S : \E pick \in A3Picks \ {NoPick} :
          /\ BaseAdmitEvict(ln, e)
          /\ e \in a3.S => pick = e
          /\ A3BaseOffer(ln, pick)
          /\ UNCHANGED before_run
    \/ \E ln \in PairLines :
          BaseReject(ln) /\ A3BaseOffer(ln, NoPick) /\ UNCHANGED before_run
    \/ Return /\ A3Return /\ UNCHANGED before_run
    \/ Return /\ A3ReturnError /\ UNCHANGED before_run
    \/ ReturnError /\ A3ReturnError /\ UNCHANGED before_run

SpecPair == InitPair /\ [][NextPair]_vars

TypeOK ==
    /\ variant \in {"BASE", "IMPR"}
    /\ M \in 0..(MaxM + 1)
    /\ t \in 0..(MaxT + 1)
    /\ pc \in {"idle", "reading"}
    /\ outcome \in {"none", "running", "returned", "OSError", "ValueError", "ZeroDivisionError"}

(* ---------------------------- properties ------------------------------- *)
(* the edge a line of the input alphabet stands for, {} when it stands for none *)
EdgeOf(ln) == IF ln \in Lines /\ Parsed[ln].kind = "edge" THEN Parsed[ln].edge ELSE {}

(* the whitespace-separated tokens of a line that has been read, <<>> when none was *)
TokensOf(ln) == IF ln \in Lines THEN Split(Strip(ln)) ELSE <<>>

IsCommentOrBlank(ln) == ln \in Lines /\ (Strip(ln) = <<>> \/ Strip(ln)[1] = "#")

(* a step that has just processed the line held in line' *)
LineStep == line' # NoLine

(* C1: after every processed line the sample set S holds at most M edges. *)
C1_ReservoirBound == Cardinality(S) <= M

C1_Witness ==
    /\ pc = "reading"
    /\ M >= 3
    /\ t > M
    /\ Cardinality(S) = M
    /\ EdgeOf(line) \in S
    /\ stream_edges \ S # {}

(* C2: for TriestImpr the estimates are read without scaling: run() returns *)
(* tau and get_local_estimate(v) returns tau_vertices[v].                    *)
C2_ImprReadsUnscaled ==
    variant = "IMPR" =>
        /\ (pc = "idle" /\ outcome = "returned") => result = tau
        /\ \A v \in DOMAIN tau_vertices :
              ~get_local_estimate_raises(v) => get_local_estimate(v) = tau_vertices[v]

(* C3: while t <= M on a stream without repeated edges, S is exactly the set *)
(* of edges accepted so far and both scaling factors are 1.                  *)
C3_FillingExact ==
    (t <= M /\ t = Cardinality(stream_edges)) =>
        /\ S = stream_edges
        /\ TriestBase_xi(t, M) = One
        /\ TriestImpr_xi(t, M) = One
        /\ ~xi_raises(variant, t, M)

C3_Witness ==
    /\ pc = "reading"
    /\ M >= 3
    /\ t = M
    /\ Cardinality(stream_edges) = M
    /\ S = stream_edges

(* C4: a line whose two integers are equal changes neither t nor S and its   *)
(* vertex never enters S; every member of S is a pair of distinct vertices.  *)
IsSelfLoopLine(ln) ==
    LET parts == TokensOf(ln)
    IN  /\ Len(parts) >= 2
        /\ IntOk(parts[1])
        /\ IntOk(parts[2])
        /\ IntVal(parts[1]) = IntVal(parts[2])

C4_SelfLoopRejected ==
    /\ [](\A e \in S : Cardinality(e) = 2)
    /\ [][(LineStep /\ IsSelfLoopLine(line')) =>
             (t' = t /\ S' = S /\ {IntVal(TokensOf(line')[1])} \notin S')]_vars

C4_Witness ==
    /\ pc = "reading"
    /\ line = <<"5", " ", "5">>
    /\ t >= 2
    /\ Cardinality(S) >= 2

(* C5: with skip_duplicates, a line for an edge that was already accepted    *)
(* (in either vertex order) leaves t, S, tau and the per-vertex map as they  *)
(* were.                                                                     *)
C5_DuplicateIdempotent ==
    [][(LineStep /\ skip_duplicates /\ EdgeOf(line') # {} /\ EdgeOf(line') \in stream_edges)
          => UNCHANGED <<t, S, tau, tau_vertices>>]_vars

C5_Witness ==
    /\ pc = "reading"
    /\ skip_duplicates
    /\ line = <<"2", " ", "1">>
    /\ skipped_count >= 1
    /\ {1, 2} \in S
    /\ tau # Zero

(* C6: no estimator with M < 3 ever processes an edge. *)
C6_SmallMNeverProcesses == t > 0 => M >= 3

(* C7: a line with fewer than two tokens or with a non-integer token is      *)
(* skipped and counted, never ends run(), and leaves the estimator state as  *)
(* it was.                                                                   *)
IsMalformedLine(ln) ==
    LET parts == TokensOf(ln)
    IN  /\ ln \in Lines
        /\ ~IsCommentOrBlank(ln)
        /\ \/ Len(parts) < 2
           \/ \E i \in 1..Len(parts) : ~IntOk(parts[i])

C7_MalformedRecoverable ==
    [][(LineStep /\ IsMalformedLine(line')) =>
          /\ pc' = "reading"
          /\ skipped_count' = skipped_count + 1
          /\ UNCHANGED <<t, S, tau, tau_vertices, seen_edges>>]_vars

(* C8: TriestBase with M = 2 on the three edges of the triangle 1-2-3: tau   *)
(* never exceeds 1 and run() returns xi(3)*tau without a division error.     *)
Triangle123 == {{1, 2}, {2, 3}, {1, 3}}

C8_ScenarioBGuarded ==
    (variant = "BASE" /\ M = 2 /\ stream_edges \subseteq Triangle123 /\ t <= 3
        /\ t = Cardinality(stream_edges)) =>
        /\ RLeq(tau, One)
        /\ (t = 3 /\ pc = "idle") => outcome # "ZeroDivisionError"

(* C9: for TriestBase with M >= 3, xi() is max(1, t(t-1)(t-2)/(M(M-1)(M-2))) *)
(* when t >= 3 and 1 when t < 3; run() returns xi*tau and the local estimate *)
(* of v is xi*tau_vertices[v], 0 for a vertex without entry.                 *)
XiFormula(t_, M_) ==
    IF t_ >= 3
    THEN RMax(One, Rat(t_ * (t_ - 1) * (t_ - 2), M_ * (M_ - 1) * (M_ - 2)))
    ELSE One

VertexIds == 0..5

C9_BaseEstimate ==
    (variant = "BASE" /\ M >= 3) =>
        /\ ~xi_raises(variant, t, M)
        /\ xi(variant, t, M) = XiFormula(t, M)
        /\ (pc = "idle" /\ outcome = "returned") => result = RMul(XiFormula(t, M), tau)
        /\ \A v \in VertexIds :
              /\ ~get_local_estimate_raises(v)
              /\ get_local_estimate(v) =
                    IF v \in DOMAIN tau_vertices
                    THEN RMul(XiFormula(t, M), tau_vertices[v])
                    ELSE Zero

C9_Witness ==
    /\ variant = "BASE"
    /\ M >= 3
    /\ pc = "idle"
    /\ outcome = "returned"
    /\ t > M
    /\ RLt(One, result)
    /\ \E v \in VertexIds : RLt(One, get_local_estimate(v))

(* C10: for M >= 3 both scaling factors are 1 while t <= M and strictly      *)
(* increasing in t beyond M.                                                 *)
Horizon == MaxT + 3

C10_ScalingBoundary ==
    M >= 3 =>
        /\ \A t1 \in 0..M : TriestBase_xi(t1, M) = One /\ TriestImpr_xi(t1, M) = One
        /\ t <= M => xi(variant, t, M) = One
        /\ \A t1 \in (M + 1)..Horizon : \A t2 \in (t1 + 1)..Horizon :
              /\ RLt(TriestBase_xi(t1, M), TriestBase_xi(t2, M))
              /\ RLt(TriestImpr_xi(t1, M), TriestImpr_xi(t2, M))

C10_Witness ==
    /\ M >= 3
    /\ t = M + 2
    /\ pc = "reading"
    /\ RLt(xi(variant, t - 1, M), xi(variant, t, M))
    /\ RLt(One, xi(variant, t, M))

(* C11: for M >= 3, whatever the stream, the global estimate xi*tau and all  *)
(* per-vertex counters and local estimates are >= 0 wherever they can be     *)
(* read, and so is the estimate run() returns.                               *)
C11_NonNegative ==
    M >= 3 =>
        /\ ~xi_raises(variant, t, M)
        /\ RLeq(Zero, RMul(xi(variant, t, M), tau))
        /\ \A v \in DOMAIN tau_vertices :
              RLeq(Zero, tau_vertices[v]) /\ RLeq(Zero, get_local_estimate(v))
        /\ (pc = "idle" /\ outcome = "returned") => RLeq(Zero, result)

C11_Witness ==
    /\ M >= 3
    /\ ~skip_duplicates
    /\ variant = "BASE"
    /\ t > Cardinality(stream_edges)
    /\ t > M
    /\ stream_edges \ S # {}
    /\ pc = "idle"
    /\ outcome = "returned"
    /\ RLt(Zero, result)

(* C12: TriestBase with M = 3 on the three edges of the triangle 1-2-3 ends  *)
(* with S = the three edges, tau = 1, xi(3) = 1 and returns 1.               *)
C12_ScenarioA ==
    (variant = "BASE" /\ M = 3 /\ t = 3 /\ stream_edges = Triangle123) =>
        /\ S = Triangle123
        /\ tau = One
        /\ ~xi_raises(variant, t, M)
        /\ xi(variant, t, M) = One
        /\ \A v \in {1, 2, 3} : TvGet(tau_vertices, v) = One
        /\ (pc = "idle" /\ outcome = "returned") => result = One

C12_Witness ==
    /\ variant = "BASE"
    /\ M = 3
    /\ t = 3
    /\ stream_edges = Triangle123
    /\ pc = "idle"
    /\ outcome = "returned"
    /\ result = One

(* C13: t never decreases and is never reset; it grows by exactly one for    *)
(* each accepted edge and by nothing else, so that once t exceeds M it       *)
(* exceeds M for ever.                                                       *)
AcceptedStep ==
    /\ LineStep
    /\ EdgeOf(line') # {}
    /\ skip_duplicates => EdgeOf(line') \notin stream_edges

C13_PositionMonotone ==
    [][/\ M' = M
       /\ t' = t \/ t' = t + 1
       /\ (t' = t + 1) <=> AcceptedStep
       /\ t > M => t' > M]_vars

C13_Witness ==
    /\ M >= 3
    /\ t = M + 1
    /\ pc = "idle"
    /\ outcome = "returned"
    /\ Cardinality(S) = M

(* C14: a blank line or a line starting with '#' is ignored: t, S, tau, the  *)
(* per-vertex map and the seen-edge set stay as they are and run() goes on.  *)
C14_CommentIgnored ==
    [][(LineStep /\ IsCommentOrBlank(line')) =>
          /\ UNCHANGED <<t, S, tau, tau_vertices, seen_edges>>
          /\ pc' = pc]_vars

C14_Witness ==
    /\ pc = "reading"
    /\ line = <<"#", " ", "1", " ", "2">>
    /\ t >= 3
    /\ tau # Zero

(* C15: when the edge file cannot be opened run() ends with the error, gives *)
(* no estimate, does not start reading, and leaves t, S, tau, the per-vertex *)
(* map and the seen-edge set as they were.                                   *)
C15_SourceUnavailable ==
    [][outcome' = "OSError" =>
          /\ pc' = "idle"
          /\ result' = None
          /\ UNCHANGED <<t, S, tau, tau_vertices, seen_edges>>]_vars

C15_Witness ==
    /\ outcome = "OSError"
    /\ pc = "idle"
    /\ t >= 3
    /\ tau # Zero
    /\ S # {}

(* the vertices w for which both {u,w} and {v,w} are in S_, e = {u,v} *)
Closes(S_, e) == {w \in (UNION S_) \ e : \A x \in e : {x, w} \in S_}

(* what one pass over the triangles of e in S_ adds to the counter of vertex x *)
Units(S_, e, x) ==
    IF x \in e THEN Cardinality(Closes(S_, e))
    ELSE IF x \in Closes(S_, e) THEN 1 ELSE 0

(* a TriestBase step in which some member of S was evicted *)
BaseEvictionStep == variant = "BASE" /\ LineStep /\ S \ S' # {}
Evicted == CHOOSE e \in S \ S' : TRUE

(* C17: when TriestBase evicts an edge, tau and the per-vertex counters lose *)
(* exactly the triangles of that edge in S as it was before the removal, and *)
(* the incoming edge is counted only against S without the evicted edge.     *)
C17_BaseEvictionUpdate ==
    [][BaseEvictionStep =>
          /\ S \ S' = {Evicted}
          /\ RAdd(tau', FromInt(-Cardinality(Closes(S \ {Evicted}, EdgeOf(line'))))) =
                RAdd(tau, FromInt(-Cardinality(Closes(S, Evicted))))
          /\ \A x \in VertexIds :
                RAdd(TvGet(tau_vertices', x), FromInt(-Units(S \ {Evicted}, EdgeOf(line'), x))) =
                   RAdd(TvGet(tau_vertices, x), FromInt(-Units(S, Evicted, x)))]_vars

C17_Witness ==
    /\ variant = "BASE"
    /\ pc = "reading"
    /\ M = 3
    /\ t = 4
    /\ stream_edges = Triangle123 \cup {{3, 4}}
    /\ EdgeOf(line) = {3, 4}
    /\ {3, 4} \in S
    /\ tau = Zero
    /\ tau_vertices = EmptyMap

(* C18: when TriestBase admits an edge, tau grows by the number of vertices  *)
(* adjacent in S to both its ends, S taken before the edge is inserted (and  *)
(* after a possible eviction), the counters of the three vertices of each    *)
(* such triangle grow by one, and the edge is in S afterwards.               *)
BaseAdmission ==
    /\ variant = "BASE"
    /\ AcceptedStep
    /\ t' <= M \/ S \ S' # {}

BaseBefore == IF S \ S' # {} THEN S \ {Evicted} ELSE S

(* what the eviction of this step, if there is one, takes from the counter of x *)
LostUnits(x) == IF S \ S' # {} THEN Units(S, Evicted, x) ELSE 0

LostTau == IF S \ S' # {} THEN Cardinality(Closes(S, Evicted)) ELSE 0

C18_BaseInsertionUpdate ==
    [][BaseAdmission =>
          /\ EdgeOf(line') \in S'
          /\ S' = BaseBefore \cup {EdgeOf(line')}
          /\ tau' = RAdd(RAdd(tau, FromInt(-LostTau)),
                         FromInt(Cardinality(Closes(BaseBefore, EdgeOf(line')))))
          /\ \A x \in VertexIds :
                TvGet(tau_vertices', x) =
                   RAdd(RAdd(TvGet(tau_vertices, x), FromInt(-LostUnits(x))),
                        FromInt(Units(BaseBefore, EdgeOf(line'), x)))]_vars

C18_Witness ==
    /\ variant = "BASE"
    /\ pc = "reading"
    /\ M = 3
    /\ t = 4
    /\ {3, 4} \in stream_edges
    /\ EdgeOf(line) = {1, 3}
    /\ S = Triangle123
    /\ tau = One
    /\ \A v \in {1, 2, 3} : TvGet(tau_vertices, v) = One

(* ------------------------------------------------------------------------ *)
(* C19: in the IMPROVED variant every accepted edge updates the counters,   *)
(* whether or not it is then stored: for each vertex that the edge closes a *)
(* triangle with in the current sample, tau and the three per-vertex        *)
(* counters grow by eta(t), t being the position already incremented.       *)
EtaFormula(t_, M_) ==
    IF t_ >= 3 THEN RMax(One, Rat((t_ - 1) * (t_ - 2), M_ * (M_ - 1))) ELSE One

ImprAcceptedStep == variant = "IMPR" /\ AcceptedStep /\ t' = t + 1

Closed == Cardinality(Closes(S, EdgeOf(line')))

Gain(n) == IF n = 0 THEN Zero ELSE RMul(EtaFormula(t', M), FromInt(n))

C19_ImprUnconditionalUpdate ==
    [][ImprAcceptedStep =>
          /\ tau' = RAdd(tau, Gain(Closed))
          /\ \A x \in VertexIds :
                TvGet(tau_vertices', x) =
                   RAdd(TvGet(tau_vertices, x), Gain(Units(S, EdgeOf(line'), x)))]_vars

C19_Witness ==
    /\ variant = "IMPR"
    /\ pc = "reading"
    /\ M = 3
    /\ t = 5
    /\ t = Cardinality(stream_edges)
    /\ EdgeOf(line) # {}
    /\ EdgeOf(line) \notin S
    /\ RLeq(FromInt(2), tau)

(* ------------------------------------------------------------------------ *)
(* C20: the IMPROVED counters never decrease: no step lowers tau or a       *)
(* per-vertex counter or removes a per-vertex entry, and a step that evicts *)
(* an edge from the sample changes the counters only by the accepted edge's *)
(* own increment.                                                           *)
ImprEvictionStep == variant = "IMPR" /\ LineStep /\ S \ S' # {}

C20_ImprMonotone ==
    [][variant = "IMPR" =>
          /\ RLeq(tau, tau')
          /\ DOMAIN tau_vertices \subseteq DOMAIN tau_vertices'
          /\ \A v \in DOMAIN tau_vertices : RLeq(tau_vertices[v], tau_vertices'[v])
          /\ ImprEvictionStep =>
                /\ tau' = RAdd(tau, Gain(Closed))
                /\ \A x \in VertexIds :
                      TvGet(tau_vertices', x) =
                         RAdd(TvGet(tau_vertices, x),
                              Gain(Units(S, EdgeOf(line'), x)))]_vars

C20_Witness ==
    /\ variant = "IMPR"
    /\ pc = "reading"
    /\ M = 3
    /\ t = 4
    /\ stream_edges = Triangle123 \cup {{3, 4}}
    /\ EdgeOf(line) = {3, 4}
    /\ {3, 4} \in S
    /\ ~(Triangle123 \subseteq S)
    /\ tau = One
    /\ \A v \in {1, 2, 3} : TvGet(tau_vertices, v) = One

(* ------------------------------------------------------------------------ *)
(* C21: reservoir offer effects, both variants: while t <= M every accepted *)
(* edge is stored and nothing is evicted; when t > M an admitted edge makes *)
(* exactly one current member leave S before the new edge is inserted; an   *)
(* edge that is not admitted leaves S unchanged, and in TriestBase tau and  *)
(* the per-vertex map as well.                                              *)
C21_ReservoirOffer ==
    [][AcceptedStep =>
          /\ t' = t + 1
          /\ t' <= M => S' = S \cup {EdgeOf(line')}
          /\ t' > M =>
                \/ /\ S' = S
                   /\ variant = "BASE" => UNCHANGED <<tau, tau_vertices>>
                \/ \E e \in S : S' = (S \ {e}) \cup {EdgeOf(line')}]_vars

C21_Witness ==
    /\ variant = "IMPR"
    /\ pc = "reading"
    /\ M = 3
    /\ t = 5
    /\ EdgeOf(line) \in S
    /\ Cardinality(S) = 3
    /\ Cardinality(stream_edges \ S) = 2

(* ------------------------------------------------------------------------ *)
(* C22: in TriestBase a per-vertex entry is removed when its value returns  *)
(* to zero: after every processed line the per-vertex map holds no entry    *)
(* whose value is zero or negative, every vertex present counts at least 1. *)
C22_BaseCleanup ==
    variant = "BASE" => \A v \in DOMAIN tau_vertices : RLeq(One, tau_vertices[v])

C22_Witness ==
    /\ variant = "BASE"
    /\ skip_duplicates
    /\ pc = "reading"
    /\ M = 3
    /\ t = 4
    /\ stream_edges = Triangle123 \cup {{1, 4}}
    /\ EdgeOf(line) = {1, 4}
    /\ {1, 4} \in S
    /\ tau_vertices = EmptyMap

(* ------------------------------------------------------------------------ *)
(* C23: a line holding three or more integer tokens (such as "1 2 3") is    *)
(* skipped by both variants: it leaves t, S and tau unchanged.              *)
HasExtraTokens(ln) ==
    LET parts == TokensOf(ln)
    IN  /\ ln \in Lines
        /\ ~IsCommentOrBlank(ln)
        /\ Len(parts) >= 3
        /\ \A i \in 1..Len(parts) : IntOk(parts[i])

C23_ExtraTokensSkipped ==
    [][(LineStep /\ HasExtraTokens(line')) => UNCHANGED <<t, S, tau>>]_vars

(* ------------------------------------------------------------------------ *)
(* C25: TriestBase counters are exact for the sample: when no accepted edge *)
(* was a repeat (always so with skip_duplicates), tau is the number of      *)
(* triangles whose three edges are in S, and the counter of every vertex v  *)
(* (0 when absent) is the number of those triangles that contain v.         *)
TrianglesIn(S_) ==
    {tri \in SUBSET (UNION S_) :
        /\ Cardinality(tri) = 3
        /\ \A a \in tri : \A b \in tri \ {a} : {a, b} \in S_}

NoRepeatAccepted == t = Cardinality(stream_edges)

C25_BaseExact ==
    (variant = "BASE" /\ NoRepeatAccepted) =>
        /\ tau = FromInt(Cardinality(TrianglesIn(S)))
        /\ \A v \in VertexIds :
              TvGet(tau_vertices, v) =
                 FromInt(Cardinality({tri \in TrianglesIn(S) : v \in tri}))

C25_Witness ==
    /\ variant = "BASE"
    /\ skip_duplicates
    /\ M = 3
    /\ t = 5
    /\ Triangle123 \subseteq stream_edges
    /\ ~(Triangle123 \subseteq S)
    /\ tau = One
    /\ DOMAIN tau_vertices = {1, 3, 4}

(* ------------------------------------------------------------------------ *)
(* C26: TriestBase with skip_duplicates = false, on a stream that repeats   *)
(* an edge: after every processed edge tau still is the number of triangles *)
(* whose three edges are in S.                                              *)
C26_BaseExactWithRepeats ==
    (variant = "BASE" /\ ~skip_duplicates) =>
        tau = FromInt(Cardinality(TrianglesIn(S)))

(* ------------------------------------------------------------------------ *)
(* C27: with skip_duplicates and M >= 1 the reservoir is as full as it can  *)
(* be after every processed line: |S| = min(t, M), for both variants.       *)
Min(a, b) == IF a <= b THEN a ELSE b

C27_ReservoirFull ==
    (skip_duplicates /\ M >= 1) => Cardinality(S) = Min(t, M)

C27_Witness ==
    /\ skip_duplicates
    /\ pc = "reading"
    /\ M = 4
    /\ t = 5
    /\ EdgeOf(line) # {}
    /\ EdgeOf(line) \notin S
    /\ Cardinality(S) = 4

(* ------------------------------------------------------------------------ *)
(* C28: with skip_duplicates the seen-edge set has exactly t elements and   *)
(* contains S after every processed line; it never loses an edge, so an     *)
(* edge that was accepted, even if the sampler rejected it or evicted it    *)
(* later, is skipped when it comes again and does not re-enter S.           *)
SeenConsistent ==
    skip_duplicates => /\ Cardinality(seen_edges) = t
                       /\ S \subseteq seen_edges

RepeatStep == LineStep /\ EdgeOf(line') # {} /\ EdgeOf(line') \in seen_edges

SeenKept ==
    skip_duplicates =>
        /\ seen_edges \subseteq seen_edges'
        /\ RepeatStep => UNCHANGED <<t, S, tau, tau_vertices, seen_edges>>

C28_SeenEdges == []SeenConsistent /\ [][SeenKept]_vars

C28_Witness ==
    /\ skip_duplicates
    /\ pc = "reading"
    /\ line = <<"2", " ", "1">>
    /\ skipped_count >= 1
    /\ t > M
    /\ M >= 3
    /\ {1, 2} \in seen_edges \ S

(* ------------------------------------------------------------------------ *)
(* C29: run() resets nothing: entering it leaves t, S, tau, the per-vertex  *)
(* map and the seen-edge set as they were; with skip_duplicates a line      *)
(* whose edge was accepted before is skipped as a duplicate; and a call     *)
(* that follows a returned call and accepts no edge (all the edges of the   *)
(* same file are skipped) returns the estimate the call before returned; t  *)
(* never decreases, and no step that leaves t as it is changes S, tau or    *)
(* the per-vertex map, so such a call leaves them unchanged too.            *)
RerunSame ==
    (/\ skip_duplicates
     /\ pc = "idle"
     /\ outcome = "returned"
     /\ before_run.outcome = "returned"
     /\ t = before_run.t) =>
        result = before_run.result

RerunStep ==
    /\ (pc = "idle" /\ pc' = "reading") =>
          UNCHANGED <<t, S, tau, tau_vertices, seen_edges>>
    /\ (skip_duplicates /\ RepeatStep) =>
          /\ skipped_count' = skipped_count + 1
          /\ t' = t
    /\ t' = t => UNCHANGED <<S, tau, tau_vertices>>
    /\ t' >= t

C29_StateSurvives == []RerunSame /\ [][RerunStep]_vars

C29_Witness ==
    /\ skip_duplicates
    /\ pc = "idle"
    /\ outcome = "returned"
    /\ before_run.outcome = "returned"
    /\ before_run.t = t
    /\ t > M
    /\ M >= 3
    /\ skipped_count >= 1
    /\ tau # Zero
    /\ result = before_run.result

(* ------------------------------------------------------------------------ *)
(* C24: in TriestBase and TriestImproved of Asiignment3 the line "5 5"      *)
(* never becomes a member of S, never adds to t and never changes tau, and  *)
(* every member of S is a pair of two distinct vertices.                    *)
SelfLoopLine == <<"5", " ", "5">>

A3SelfLoopStep == a3' # a3 /\ a3'.line = SelfLoopLine

C24_A3SelfLoopRejected ==
    /\ [](\A e \in a3.S : Cardinality(e) = 2)
    /\ [][A3SelfLoopStep => /\ a3'.S = a3.S
                            /\ a3'.t = a3.t
                            /\ a3'.tau = a3.tau]_vars

(* ------------------------------------------------------------------------ *)
(* C30: the two TriestBase implementations agree: with M >= 3, as long as   *)
(* every line read was a well-formed edge, no self-loop and no repeat, and  *)
(* the random draws are the same, the estimator of Asiignment3 and the one  *)
(* of HW3 hold the same t, S and tau after every edge and the same non-zero *)
(* per-vertex counts, and their run() returns the same estimate.            *)
SameStream == t = Cardinality(stream_edges) /\ a3.t = t

C30_BaseAgree ==
    (M >= 3 /\ SameStream) =>
        /\ a3.S = S
        /\ a3.tau = tau
        /\ \A x \in VertexIds : TvGet(a3.tau_vertices, x) = TvGet(tau_vertices, x)
        /\ a3.pc = pc
        /\ (pc = "idle" /\ outcome = "returned") =>
              (a3.outcome = "returned" /\ a3.result = result)

C30_Witness ==
    /\ M = 3
    /\ SameStream
    /\ t = 5
    /\ pc = "idle"
    /\ outcome = "returned"
    /\ a3.outcome = "returned"
    /\ tau = One
    /\ result = FromInt(10)
    /\ a3.result = result
    /\ DOMAIN a3.tau_vertices # DOMAIN tau_vertices
====
